---- MODULE Spec2Model ----
(***************************************************************************)
(* H2M_favorites: the server-location cache (src/src/utils/caching.rs) and *)
(* the orchestration loop that persists it (src/src/main.rs).              *)
(*                                                                         *)
(* Four specifications share the module:                                   *)
(*   SpecCache    the in-memory Cache: Cache::from and the two upserts     *)
(*   SpecPersist  read_cache / update_cache against the snapshot file      *)
(*   SpecBuild    build_cache, the population pipeline                     *)
(*   Spec         main: the select loop, the background scheduler task,    *)
(*                the two bounded channels and the dirty flag              *)
(***************************************************************************)
EXTENDS Integers, Sequences, FiniteSets, TLC

VARIABLES
    \* ---- Cache (caching.rs:10-15) ----
    servers,            \* Vec<ServerCache>
    host_to_connect,    \* HashMap<String, String>: hostname -> "ip:port"
    ip_to_region,       \* HashMap<String, String>: ip -> region
    created,            \* SystemTime, in seconds
    op,                 \* the operation that acted last, with its input
    \* ---- the snapshot file and the clock (caching.rs:130-165) ----
    disk,               \* the file CACHED_DATA of the local data directory
    now,                \* std::time::SystemTime::now(), in seconds
    loaded,             \* io::Result<Cache> of the latest read_cache
    unmodified,         \* the Cache has not changed since its last successful save
    \* ---- build_cache (caching.rs:81-128) ----
    master,             \* what get_server_master() returns
    bpc,                \* where build_cache stands
    tasks,              \* Vec<JoinHandle>: the spawned units, in spawn order
    joined,             \* how many tasks the join loop has awaited
    collection,         \* Vec<ServerCache> being collected
    result,             \* reqwest::Result<Vec<ServerCache>> returned
    resolved,           \* the servers handed to resolve_address, in order
    overtaken,          \* a unit has finished while one spawned before it still ran
    \* ---- main (main.rs:26-172) ----
    pc,                 \* where the main task stands
    cache_needs_update, \* the shared AtomicBool: the dirty flag
    update_cache_ch,    \* items queued in mpsc::channel(20) of line 71
    message_ch,         \* items queued in mpsc::channel(20) of line 61
    sched,              \* where the background scheduler task stands
    producer,           \* where the command layer's message task stands
    exit_path,          \* the way the select loop was left
    dirty_at_stop,      \* the dirty flag at the moment the loop was left
    final_saves,        \* update_cache calls made after the loop was left
    unsaved,            \* a command set the flag and no update_cache call followed yet
    boot,               \* how app_startup obtained the Cache, or failed to
    logged              \* the errors the loop has met so far

cacheVars == <<servers, host_to_connect, ip_to_region, created>>
persistVars == <<disk, now, loaded, unmodified>>
buildVars == <<master, bpc, tasks, joined, collection, result, resolved, overtaken>>
loopVars == <<pc, cache_needs_update, update_cache_ch, message_ch, sched,
              producer, exit_path, dirty_at_stop, final_saves, unsaved,
              boot, logged>>
notBuildVars == <<cacheVars, op, persistVars, loopVars>>
notLoopVars == <<cacheVars, op, persistVars, buildVars>>
vars == <<servers, host_to_connect, ip_to_region, created, op,
          disk, now, loaded, unmodified,
          master, bpc, tasks, joined, collection, result, resolved, overtaken,
          pc, cache_needs_update, update_cache_ch, message_ch, sched,
          producer, exit_path, dirty_at_stop, final_saves, unsaved,
          boot, logged>>

(***************************************************************************)
(* Bounds of the model.                                                    *)
(***************************************************************************)
MaxServers == 3         \* longest servers vector explored
MaxInitial == 2         \* longest record sequence handed to Cache::from in SpecCache

(***************************************************************************)
(* Input domains.                                                          *)
(***************************************************************************)
Hostnames == {"alpha", "bravo"}
Ips       == {"10.0.0.1", "10.0.0.2"}
Ports     == {27016, 27017}
Regions   == {"EU", "NA"}
Times     == {0, 3600, 86400, 90000}    \* seconds; 86400 = 24 h, 90000 = 25 h

\* struct ServerCache { hostname, ip, port, region }
ServerCache == [hostname : Hostnames, ip : Ips, port : Ports, region : Regions]
\* struct ServerInfo: the fields of a live server that the cache reads
ServerInfo  == [hostname : Hostnames, ip : Ips, port : Ports]

Range(s) == {s[i] : i \in DOMAIN s}

SeqsUpTo(S, n) == UNION {[1..k -> S] : k \in 0..n}

(***************************************************************************)
(* HashMap: a function on the set of its keys.                             *)
(***************************************************************************)
EmptyMap == [k \in {} |-> ""]

\* a map that keeps the first value of a key (entry(k).or_insert(v))
MapInsertIfAbsent(m, k, v) ==
    [x \in (DOMAIN m) \cup {k} |-> IF x \in DOMAIN m THEN m[x] ELSE v]

\* HashMap::insert: add the key or overwrite its value
MapInsert(m, k, v) == [x \in (DOMAIN m) \cup {k} |-> IF x = k THEN v ELSE m[x]]

\* an id that leaves the port out
get_id_ip_only(server) == server.ip

(***************************************************************************)
(* ServerCache::get_id / ServerInfo::get_id: format!("{}:{}", ip, port)    *)
(***************************************************************************)
get_id(server) == server.ip \o ":" \o ToString(server.port)

\* ServerCache::from(&ServerInfo, region)
ServerCacheFrom(value, region) ==
    [hostname |-> value.hostname, ip |-> value.ip,
     port |-> value.port, region |-> region]

\* the fold over servers run from the last record to the first
RECURSIVE FoldHostRev(_, _, _)
FoldHostRev(s, i, host_map) ==
    IF i > Len(s) THEN host_map
    ELSE FoldHostRev(s, i + 1,
            MapInsert(host_map, s[Len(s) + 1 - i].hostname, get_id(s[Len(s) + 1 - i])))

(***************************************************************************)
(* Cache::from: one fold over servers, inserting into both maps in         *)
(* iteration order.                                                        *)
(***************************************************************************)
RECURSIVE FoldHost(_, _, _)
FoldHost(s, i, host_map) ==
    IF i > Len(s) THEN host_map
    ELSE FoldHost(s, i + 1, MapInsert(host_map, s[i].hostname, get_id(s[i])))

RECURSIVE FoldIp(_, _, _)
FoldIp(s, i, ip_map) ==
    IF i > Len(s) THEN ip_map
    ELSE FoldIp(s, i + 1, MapInsert(ip_map, s[i].ip, s[i].region))

CacheFrom(s, t) ==
    [host_to_connect |-> FoldHost(s, 1, EmptyMap),
     ip_to_region    |-> FoldIp(s, 1, EmptyMap),
     servers         |-> s,
     created         |-> t]

(***************************************************************************)
(* The snapshot file.  A file is absent, holds a complete JSON document,   *)
(* or holds the empty or cut-off text a failed write left behind.          *)
(***************************************************************************)
RunningVersion == "0.4.0"           \* env!("CARGO_PKG_VERSION")
Versions == {RunningVersion, "0.3.9"}

NoFile    == [kind |-> "absent"]
Truncated == [kind |-> "truncated"]
Snapshot(json) == [kind |-> "snapshot", json |-> json]

\* serde's form of a SystemTime: the duration since UNIX_EPOCH
SystemTimeToJson(t) == [secs_since_epoch |-> t, nanos_since_epoch |-> 0]
SystemTimeFromJson(j) == j.secs_since_epoch

\* serde_json::to_writer_pretty(file, &CacheFile { version, created, cache })
CacheFileToJson(data) ==
    [version |-> data.version,
     created |-> SystemTimeToJson(data.created),
     cache   |-> data.cache]

\* serde_json::from_reader::<_, CacheFile>(reader)
CacheFileFromJson(json) ==
    [version |-> json.version,
     created |-> SystemTimeFromJson(json.created),
     cache   |-> json.cache]

IoErr(kind, msg) == [tag |-> "Err", kind |-> kind, msg |-> msg]
IoOk(cache)      == [tag |-> "Ok", cache |-> cache]
NotLoaded        == [tag |-> "None"]

TTL == 86400                        \* Duration::new(60 * 60 * 24, 0)

(***************************************************************************)
(* read_cache, lines 136-147: the checks on a deserialised CacheFile.      *)
(* duration_since fails when created is later than curr_time.              *)
(***************************************************************************)
\* the checks without the age limit
check_snapshot_no_limit(data, curr_time) ==
    IF data.version # RunningVersion
    THEN IoErr("InvalidData", "version mismatch")
    ELSE IF curr_time < data.created
    THEN IoErr("Other", "second time provided was later than self")
    ELSE IoOk(CacheFrom(data.cache, data.created))

\* the checks with the age looked at before the version
check_snapshot_age_first(data, curr_time) ==
    IF curr_time >= data.created /\ curr_time - data.created > TTL
    THEN IoErr("InvalidData", "cache is too old")
    ELSE IF data.version # RunningVersion
    THEN IoErr("InvalidData", "version mismatch")
    ELSE IF curr_time < data.created
    THEN IoErr("Other", "second time provided was later than self")
    ELSE IoOk(CacheFrom(data.cache, data.created))

\* the checks with an age of exactly 24 hours refused (>= for >)
check_snapshot_ge(data, curr_time) ==
    IF data.version # RunningVersion
    THEN IoErr("InvalidData", "version mismatch")
    ELSE IF curr_time >= data.created /\ curr_time - data.created >= TTL
    THEN IoErr("InvalidData", "cache is too old")
    ELSE IF curr_time < data.created
    THEN IoErr("Other", "second time provided was later than self")
    ELSE IoOk(CacheFrom(data.cache, data.created))

check_snapshot(data, curr_time) ==
    IF data.version # RunningVersion
    THEN IoErr("InvalidData", "version mismatch")
    ELSE IF curr_time >= data.created /\ curr_time - data.created > TTL
    THEN IoErr("InvalidData", "cache is too old")
    ELSE IF curr_time < data.created
    THEN IoErr("Other", "second time provided was later than self")
    ELSE IoOk(CacheFrom(data.cache, data.created))

(***************************************************************************)
(* read_cache(local_env_dir).  io: whether listing the directory and       *)
(* opening the file succeed.                                               *)
(***************************************************************************)
read_cache(file, curr_time, io) ==
    IF io = "dir_err" THEN IoErr("Other", "read_dir failed")
    ELSE IF file.kind = "absent" THEN IoErr("NotFound", "cache.json not found")
    ELSE IF io = "open_err" THEN IoErr("PermissionDenied", "open failed")
    ELSE IF file.kind = "truncated" THEN IoErr("UnexpectedEof", "EOF while parsing")
    ELSE check_snapshot(CacheFileFromJson(file.json), curr_time)

\* a CacheFile stamped with the time of the save
CacheFileRestamped ==
    [version |-> RunningVersion, created |-> now, cache |-> servers]

\* update_cache, lines 159-163: the CacheFile of the Cache being saved
CacheFileOf ==
    [version |-> RunningVersion, created |-> created, cache |-> servers]

(***************************************************************************)
(* update_cache(server_cache, local_env_dir).  File::create truncates the  *)
(* existing file before anything is written; fs: how far the call gets.    *)
(***************************************************************************)
update_cache_file(file, fs) ==
    CASE fs = "create_err" -> file
      [] fs = "write_err"  -> Truncated
      [] OTHER             -> Snapshot(CacheFileToJson(CacheFileOf))

Save ==
    \E fs \in {"ok", "create_err", "write_err"} :
        /\ disk' = update_cache_file(disk, fs)
        /\ unmodified' = (fs = "ok")
        /\ op' = [name |-> "update_cache", fs |-> fs]
        /\ UNCHANGED <<cacheVars, now, loaded, buildVars, loopVars>>

Load ==
    \E io \in {"ok", "dir_err", "open_err"} :
        /\ loaded' = read_cache(disk, now, io)
        /\ op' = [name |-> "read_cache", io |-> io]
        /\ UNCHANGED <<cacheVars, disk, now, unmodified, buildVars, loopVars>>

\* the system clock is not monotonic: it may be set to any instant
ClockSet ==
    \E t \in Times \ {now} :
        /\ now' = t
        /\ op' = [name |-> "clock"]
        /\ UNCHANGED <<cacheVars, disk, loaded, unmodified, buildVars, loopVars>>

InitPersistIdle ==
    /\ disk = NoFile
    /\ now = 0
    /\ loaded = NotLoaded
    /\ unmodified = FALSE

\* build_cache is not running
InitBuildIdle ==
    /\ master = [tag |-> "None"]
    /\ bpc = "idle"
    /\ tasks = <<>>
    /\ joined = 0
    /\ collection = <<>>
    /\ result = [tag |-> "None"]
    /\ resolved = <<>>
    /\ overtaken = FALSE

\* the loop is not running; flag: what the shared dirty flag holds
LoopIdle(flag) ==
    /\ pc = "idle"
    /\ cache_needs_update = flag
    /\ update_cache_ch = 0
    /\ message_ch = 0
    /\ sched = "absent"
    /\ producer = "absent"
    /\ exit_path = "none"
    /\ dirty_at_stop = FALSE
    /\ final_saves = 0
    /\ unsaved = FALSE
    /\ boot = "none"
    /\ logged = {}

\* main has not started
InitLoopIdle == LoopIdle(FALSE)

(***************************************************************************)
(* SpecCache: a Cache built by Cache::from, then any upserts.              *)
(***************************************************************************)
InitCache ==
    \E s \in SeqsUpTo(ServerCache, MaxInitial), t \in Times, flag \in BOOLEAN :
        LET c == CacheFrom(s, t) IN
        /\ servers = c.servers
        /\ host_to_connect = c.host_to_connect
        /\ ip_to_region = c.ip_to_region
        /\ created = c.created
        /\ op = [name |-> "from"]
        /\ InitPersistIdle
        /\ InitBuildIdle
        /\ LoopIdle(flag)

\* an upsert that also sets the dirty flag
update_cache_with_marking(server, region) ==
    /\ Len(servers) < MaxServers
    /\ host_to_connect' = MapInsert(host_to_connect, server.hostname, get_id(server))
    /\ ip_to_region' = MapInsert(ip_to_region, server.ip, region)
    /\ servers' = Append(servers, ServerCacheFrom(server, region))
    /\ op' = [name |-> "update_cache_with",
              server |-> ServerCacheFrom(server, region)]
    /\ unmodified' = FALSE
    /\ cache_needs_update' = TRUE
    /\ UNCHANGED <<created, disk, now, loaded, buildVars, pc, update_cache_ch,
                   message_ch, sched, producer, exit_path, dirty_at_stop,
                   final_saves, unsaved, boot, logged>>

\* an upsert that overwrites the record already held under the hostname
\* instead of pushing a new one
update_cache_with_replace(server, region) ==
    LET new == ServerCacheFrom(server, region)
        held == {i \in DOMAIN servers : servers[i].hostname = server.hostname}
    IN  /\ Len(servers) < MaxServers
        /\ host_to_connect' = MapInsert(host_to_connect, server.hostname, get_id(server))
        /\ ip_to_region' = MapInsert(ip_to_region, server.ip, region)
        /\ servers' = IF held = {} THEN Append(servers, new)
                      ELSE [servers EXCEPT ![CHOOSE i \in held : TRUE] = new]
        /\ op' = [name |-> "update_cache_with", server |-> new]
        /\ unmodified' = FALSE
        /\ UNCHANGED <<created, disk, now, loaded, buildVars, loopVars>>

\* Cache::update_cache_with(&mut self, server: &ServerInfo, region: String)
update_cache_with(server, region) ==
    /\ Len(servers) < MaxServers
    /\ host_to_connect' = MapInsert(host_to_connect, server.hostname, get_id(server))
    /\ ip_to_region' = MapInsert(ip_to_region, server.ip, region)
    /\ servers' = Append(servers, ServerCacheFrom(server, region))
    /\ op' = [name |-> "update_cache_with",
              server |-> ServerCacheFrom(server, region)]
    /\ unmodified' = FALSE
    /\ UNCHANGED <<created, disk, now, loaded, buildVars, loopVars>>

\* Cache::update_cache_with_consume(&mut self, server: ServerCache)
update_cache_with_consume(server) ==
    /\ Len(servers) < MaxServers
    /\ host_to_connect' = MapInsert(host_to_connect, server.hostname, get_id(server))
    /\ ip_to_region' = MapInsert(ip_to_region, server.ip, server.region)
    /\ servers' = Append(servers, server)
    /\ op' = [name |-> "update_cache_with_consume", server |-> server]
    /\ unmodified' = FALSE
    /\ UNCHANGED <<created, disk, now, loaded, buildVars, loopVars>>

UpsertFromServerInfo == \E server \in ServerInfo, region \in Regions :
                            update_cache_with(server, region)

UpsertRecord == \E server \in ServerCache : update_cache_with_consume(server)

NextCache ==
    \/ UpsertFromServerInfo
    \/ UpsertRecord

SpecCache == InitCache /\ [][NextCache]_vars

(***************************************************************************)
(* SpecPersist: a running Cache, the snapshot file a previous run (of this *)
(* build or an older one) may have left, saves, upserts, and the           *)
(* read_cache of a later start.                                            *)
(***************************************************************************)
MaxSaved == 2           \* longest servers vector explored by SpecPersist

\* two records under one hostname, so that the maps of a reloaded Cache matter
PersistRecords ==
    {r \in ServerCache : r.hostname = "alpha" /\ r.ip = "10.0.0.1" /\ r.region = "EU"}

PreviousFiles ==
    {NoFile} \cup
    {Snapshot(CacheFileToJson([version |-> v, created |-> t, cache |-> s])) :
        v \in Versions, t \in Times, s \in SeqsUpTo(PersistRecords, 1)}

InitPersist ==
    \E s \in SeqsUpTo(PersistRecords, 1), t \in Times, f \in PreviousFiles,
       n \in Times :
        LET c == CacheFrom(s, t) IN
        /\ servers = c.servers
        /\ host_to_connect = c.host_to_connect
        /\ ip_to_region = c.ip_to_region
        /\ created = c.created
        /\ op = [name |-> "from"]
        /\ disk = f
        /\ now = n
        /\ loaded = NotLoaded
        /\ unmodified = FALSE
        /\ InitBuildIdle
        /\ InitLoopIdle

PersistUpsert ==
    /\ Len(servers) < MaxSaved
    /\ \E server \in PersistRecords : update_cache_with_consume(server)

NextPersist ==
    \/ PersistUpsert
    \/ Save
    \/ Load
    \/ ClockSet

SpecPersist == InitPersist /\ [][NextPersist]_vars


(***************************************************************************)
(* build_cache: the population pipeline.                                   *)
(***************************************************************************)
MaxAdvertised == 4      \* most servers advertised over the whole host list

GAME_ID == "H2M"
Games == {GAME_ID, "IW4"}

\* What the environment holds for one advertised server: its game, and the
\* answer resolve_address gives for it.  A server of another game is never
\* resolved, so one answer is enough for it.
ServerKinds ==
    {k \in [game : Games, resolve : {"Unchanged", "Modified", "Err"}] :
        k.game # GAME_ID => k.resolve = "Unchanged"}

Advertised(k, kind) ==
    [hostname |-> "srv" \o ToString(k), ip |-> "10.0.0.2", port |-> 27015 + k,
     game |-> kind.game, resolve |-> kind.resolve]

Host(ip_address, host_servers) ==
    [ip_address |-> ip_address, webfront_url |-> "http://" \o ip_address,
     servers |-> host_servers]

\* The host list advertising the servers of kinds ks: the first host holds
\* the first two, a second host the others.
HostList(ks) ==
    LET all == [k \in DOMAIN ks |-> Advertised(k, ks[k])]
        n == Len(ks)
    IN  IF n = 0 THEN <<>>
        ELSE IF n <= 2 THEN <<Host("10.0.0.1", all)>>
        ELSE <<Host("10.0.0.1", SubSeq(all, 1, 2)), Host("10.0.0.3", SubSeq(all, 3, n))>>

\* for host in host_list { for server in host.servers { .. } }: the (host,
\* server) pairs in the order the two loops visit them
RECURSIVE Pairs(_)
Pairs(host_list) ==
    IF host_list = <<>> THEN <<>>
    ELSE LET host == Head(host_list) IN
         [i \in DOMAIN host.servers |-> [host |-> host, server |-> host.servers[i]]]
            \o Pairs(Tail(host_list))

\* resolve_address(&server.ip, &host.ip_address, &host.webfront_url)
resolve_address(server, host) ==
    CASE server.resolve = "Unchanged" -> [tag |-> "Unchanged"]
      [] server.resolve = "Modified"  -> [tag |-> "Modified", ip |-> host.ip_address]
      [] OTHER                        -> [tag |-> "Err"]

\* the two for loops without the test of line 90: every advertised server is
\* resolved and looked up, whatever its game
RECURSIVE SpawnLoopAnyGame(_, _, _)
SpawnLoopAnyGame(pairs, i, acc) ==
    IF i > Len(pairs) THEN acc
    ELSE LET server == pairs[i].server
             ip == resolve_address(server, pairs[i].host)
             seen == [acc EXCEPT !.resolved = Append(@, server.hostname)]
         IN  IF ip.tag = "Err" THEN SpawnLoopAnyGame(pairs, i + 1, seen)
             ELSE SpawnLoopAnyGame(pairs, i + 1,
                    [seen EXCEPT !.tasks = Append(@,
                        [server |-> IF ip.tag = "Modified"
                                    THEN [server EXCEPT !.ip = ip.ip] ELSE server,
                         state |-> "running"])])

(***************************************************************************)
(* Lines 88-115: the two for loops.  Nothing is awaited inside them, so    *)
(* they run as one step.  acc.tasks: the units spawned; acc.resolved: the  *)
(* hostnames handed to resolve_address.                                    *)
(***************************************************************************)
RECURSIVE SpawnLoop(_, _, _)
SpawnLoop(pairs, i, acc) ==
    IF i > Len(pairs) THEN acc
    ELSE LET server == pairs[i].server IN
         IF server.game # GAME_ID THEN SpawnLoop(pairs, i + 1, acc)
         ELSE LET ip == resolve_address(server, pairs[i].host)
                  seen == [acc EXCEPT !.resolved = Append(@, server.hostname)]
              IN  IF ip.tag = "Err" THEN SpawnLoop(pairs, i + 1, seen)
                  ELSE SpawnLoop(pairs, i + 1,
                         [seen EXCEPT !.tasks = Append(@,
                             [server |-> IF ip.tag = "Modified"
                                         THEN [server EXCEPT !.ip = ip.ip] ELSE server,
                              state |-> "running"])])

\* location.code of a successful try_location_lookup
LocationCode(ip) == IF ip = "10.0.0.2" THEN "NA" ELSE "EU"

\* lines 107-112: what a unit returns when its lookup succeeds
UnitRecord(server) ==
    [hostname |-> server.hostname, ip |-> server.ip, port |-> server.port,
     region |-> LocationCode(server.ip)]

\* a join that takes the record of a unit whatever its outcome
join_one_keep_failed(task, coll) == Append(coll, UnitRecord(task.server))

\* a join that puts the record of a successful unit in front of the others
join_one_front(task, coll) ==
    IF task.state = "ok" THEN <<UnitRecord(task.server)>> \o coll ELSE coll

\* lines 119-125: one turn of the join loop over a finished task
join_one(task, coll) ==
    IF task.state = "ok" THEN Append(coll, UnitRecord(task.server)) ELSE coll

\* line 82: get_server_master fails, and `?` returns the error
BuildQueryFails ==
    /\ bpc = "start"
    /\ master.tag = "Err"
    /\ result' = [tag |-> "Err"]
    /\ bpc' = "done"
    /\ UNCHANGED <<master, tasks, joined, collection, resolved, overtaken, notBuildVars>>

\* lines 82-115: the host list arrives and every unit is spawned
BuildSpawn ==
    /\ bpc = "start"
    /\ master.tag = "Ok"
    /\ LET acc == SpawnLoop(Pairs(master.host_list), 1,
                            [tasks |-> <<>>, resolved |-> <<>>]) IN
        /\ tasks' = acc.tasks
        /\ resolved' = acc.resolved
    /\ bpc' = "joining"
    /\ UNCHANGED <<master, joined, collection, result, overtaken, notBuildVars>>

\* lines 102-113: a unit ends: its lookup succeeds, fails, or the task panics
UnitFinish ==
    \E i \in DOMAIN tasks, outcome \in {"ok", "err", "panic"} :
        /\ bpc = "joining"
        /\ tasks[i].state = "running"
        /\ tasks' = [tasks EXCEPT ![i].state = outcome]
        /\ overtaken' = (overtaken \/ \E j \in 1..(i - 1) : tasks[j].state = "running")
        /\ UNCHANGED <<master, bpc, joined, collection, result, resolved, notBuildVars>>

\* lines 118-126: task.await returns for the next task in spawn order
JoinNext ==
    /\ bpc = "joining"
    /\ joined < Len(tasks)
    /\ tasks[joined + 1].state # "running"
    /\ collection' = join_one(tasks[joined + 1], collection)
    /\ joined' = joined + 1
    /\ UNCHANGED <<master, bpc, tasks, result, resolved, overtaken, notBuildVars>>

\* line 127: Ok(collection)
BuildReturn ==
    /\ bpc = "joining"
    /\ joined = Len(tasks)
    /\ result' = [tag |-> "Ok", list |-> collection]
    /\ bpc' = "done"
    /\ UNCHANGED <<master, tasks, joined, collection, resolved, overtaken, notBuildVars>>

InitCacheIdle ==
    /\ servers = <<>>
    /\ host_to_connect = EmptyMap
    /\ ip_to_region = EmptyMap
    /\ created = 0
    /\ op = [name |-> "none"]

InitBuild ==
    /\ master \in {[tag |-> "Err"]} \cup
                  {[tag |-> "Ok", host_list |-> HostList(ks)] :
                      ks \in SeqsUpTo(ServerKinds, MaxAdvertised)}
    /\ bpc = "start"
    /\ tasks = <<>>
    /\ joined = 0
    /\ collection = <<>>
    /\ result = [tag |-> "None"]
    /\ resolved = <<>>
    /\ overtaken = FALSE
    /\ InitCacheIdle
    /\ InitPersistIdle
    /\ InitLoopIdle

NextBuild ==
    \/ BuildQueryFails
    \/ BuildSpawn
    \/ UnitFinish
    \/ JoinNext
    \/ BuildReturn

SpecBuild == InitBuild /\ [][NextBuild]_vars

(***************************************************************************)
(* main: the orchestration loop and the background scheduler task, both on *)
(* one current-thread runtime: a task runs until it awaits.                *)
(***************************************************************************)
ChannelCapacity == 20               \* mpsc::channel(20), lines 61 and 71

\* a send that gives up on a full channel instead of waiting for room
mpsc_send_or_drop(len) == [len |-> IF len < ChannelCapacity THEN len + 1 ELSE len,
                           sent |-> TRUE]

\* Sender::send(..).await on a channel of len queued items: the item is
\* queued when there is room; when there is none the sender stays suspended
mpsc_send(len) ==
    IF len < ChannelCapacity THEN [len |-> len + 1, sent |-> TRUE]
    ELSE [len |-> len, sent |-> FALSE]

\* the runtime is polling tasks: block_on has started the loop and has not
\* returned (the spawned tasks are never polled after it returns)
Running == pc \notin {"idle", "startup", "done"}

\* lines 118-122: `return` ends the async block; lines 163-170 are not run
close_exit(flag) ==
    [pc |-> "done", final_saves |-> 0, unsaved |-> unsaved]

(***************************************************************************)
(* lines 163-170: what follows a `break`.  Nothing is awaited between the  *)
(* break and the load of the flag; update_cache is called when it is set.  *)
(***************************************************************************)
post_loop(flag) ==
    [pc |-> IF flag THEN "final_save" ELSE "done",
     final_saves |-> IF flag THEN 1 ELSE 0,
     unsaved |-> IF flag THEN FALSE ELSE unsaved]

Break(path) ==
    LET after == post_loop(cache_needs_update) IN
    /\ pc' = after.pc
    /\ final_saves' = after.final_saves
    /\ unsaved' = after.unsaved
    /\ exit_path' = path
    /\ dirty_at_stop' = cache_needs_update
    /\ logged' = IF path \in {"Break", "Exit"} THEN logged ELSE logged \cup {path}

\* what app_startup finds: the current directory cannot be read, a required
\* game file is missing, or the checks of lines 182-208 pass
StartupEnvs == {"current_dir_err", "files_missing", "ok"}

\* what read_cache answers at startup: every answer it can give for a file
\* left by an earlier run, or "skipped" when there is no local data directory
StartupReads ==
    {"skipped"} \cup
    {read_cache(f, t, io).tag : f \in PreviousFiles \cup {Truncated}, t \in Times,
                               io \in {"ok", "dir_err", "open_err"}}

\* a startup that goes on with an empty Cache when the rebuild fails
app_startup_keep_going(env, read, build) ==
    IF env # "ok" THEN [tag |-> "Err", boot |-> "env_err"]
    ELSE IF read = "Ok" THEN [tag |-> "Ok", boot |-> "read"]
    ELSE IF build = "Err" THEN [tag |-> "Ok", boot |-> "rebuild_failed"]
    ELSE [tag |-> "Ok", boot |-> "rebuilt"]

(***************************************************************************)
(* app_startup, lines 181-267.  The Cache read from the snapshot is        *)
(* returned at once; after any read_cache error the Cache is rebuilt, and  *)
(* `?` of line 246 returns build_cache's error to main.                    *)
(***************************************************************************)
app_startup(env, read, build) ==
    IF env # "ok" THEN [tag |-> "Err", boot |-> "env_err"]
    ELSE IF read = "Ok" THEN [tag |-> "Ok", boot |-> "read"]
    ELSE IF build = "Err" THEN [tag |-> "Err", boot |-> "rebuild_failed"]
    ELSE [tag |-> "Ok", boot |-> "rebuilt"]

\* lines 48-55: app_startup fails; main prints the error, waits for the user
\* and returns before the scheduler is spawned and the loop entered
StartupFails ==
    /\ pc = "startup"
    /\ \E env \in StartupEnvs, read \in StartupReads, build \in {"Ok", "Err"} :
        LET data == app_startup(env, read, build) IN
        /\ data.tag = "Err"
        /\ boot' = data.boot
    /\ pc' = "done"
    /\ exit_path' = "startup_err"
    /\ UNCHANGED <<cache_needs_update, update_cache_ch, message_ch, sched,
                   producer, dirty_at_stop, final_saves, unsaved, logged,
                   notLoopVars>>

\* lines 48-98: app_startup succeeds, the scheduler is spawned, the loop starts
StartupOk ==
    /\ pc = "startup"
    /\ \E env \in StartupEnvs, read \in StartupReads, build \in {"Ok", "Err"} :
        LET data == app_startup(env, read, build) IN
        /\ data.tag = "Ok"
        /\ boot' = data.boot
    /\ pc' = "select"
    /\ sched' = "check"
    /\ producer' = "idle"
    /\ UNCHANGED <<cache_needs_update, update_cache_ch, message_ch, exit_path,
                   dirty_at_stop, final_saves, unsaved, logged, notLoopVars>>

\* lines 108-109: a refresh signal is received and update_cache is called
RecvRefresh ==
    /\ pc = "select"
    /\ update_cache_ch > 0
    /\ update_cache_ch' = update_cache_ch - 1
    /\ pc' = "saving"
    /\ unsaved' = FALSE
    /\ UNCHANGED <<cache_needs_update, message_ch, sched, producer, exit_path,
                   dirty_at_stop, final_saves, boot, logged, notLoopVars>>

\* a loop that stops when update_cache fails on a refresh signal
SaveDoneOrBreak ==
    /\ pc = "saving"
    /\ \E saved \in BOOLEAN :
        IF saved
        THEN /\ pc' = "select"
             /\ UNCHANGED <<exit_path, dirty_at_stop, final_saves, unsaved, logged>>
        ELSE Break("save_err")
    /\ UNCHANGED <<cache_needs_update, update_cache_ch, message_ch, sched,
                   producer, boot, notLoopVars>>

\* lines 109-110: update_cache returns; an error is logged
SaveDone ==
    /\ pc = "saving"
    /\ pc' = "select"
    /\ \E saved \in BOOLEAN :
        logged' = IF saved THEN logged ELSE logged \cup {"save_err"}
    /\ UNCHANGED <<cache_needs_update, update_cache_ch, message_ch, sched,
                   producer, exit_path, dirty_at_stop, final_saves, unsaved,
                   boot, notLoopVars>>

\* lines 112-117: a background message is received and printed
RecvMessage ==
    /\ pc = "select"
    /\ message_ch > 0
    /\ message_ch' = message_ch - 1
    /\ \E printed \in BOOLEAN :
        IF printed
        THEN UNCHANGED <<pc, exit_path, dirty_at_stop, final_saves, unsaved, logged>>
        ELSE Break("msg_err")
    /\ UNCHANGED <<cache_needs_update, update_cache_ch, sched, producer, boot,
                   notLoopVars>>

\* lines 118-122: the OS shutdown signal
CloseSignal ==
    /\ pc = "select"
    /\ LET after == close_exit(cache_needs_update) IN
        /\ pc' = after.pc
        /\ final_saves' = after.final_saves
        /\ unsaved' = after.unsaved
    /\ exit_path' = "close"
    /\ dirty_at_stop' = cache_needs_update
    /\ UNCHANGED <<cache_needs_update, update_cache_ch, message_ch, sched,
                   producer, boot, logged, notLoopVars>>

\* lines 123-159: a terminal event, up to the await of try_execute_command
InputEvent ==
    /\ pc = "select"
    /\ \E outcome \in {"Continue", "Break", "TryProcessCommand", "split_err",
                       "editor_err", "stream_err"} :
        CASE outcome = "Continue" ->
                UNCHANGED <<pc, exit_path, dirty_at_stop, final_saves, unsaved, logged>>
          [] outcome = "split_err" ->
                /\ logged' = logged \cup {"split_err"}
                /\ UNCHANGED <<pc, exit_path, dirty_at_stop, final_saves, unsaved>>
          [] outcome = "TryProcessCommand" ->
                /\ pc' = "command"
                /\ UNCHANGED <<exit_path, dirty_at_stop, final_saves, unsaved, logged>>
          [] OTHER -> Break(outcome)
    /\ UNCHANGED <<cache_needs_update, update_cache_ch, message_ch, sched,
                   producer, boot, notLoopVars>>

\* the dispatched command changes the Cache and sets the dirty flag
CommandMarksDirty ==
    /\ pc = "command"
    /\ cache_needs_update' = TRUE
    /\ unsaved' = TRUE
    /\ UNCHANGED <<pc, update_cache_ch, message_ch, sched, producer, exit_path,
                   dirty_at_stop, final_saves, boot, logged, notLoopVars>>

\* lines 137-147: try_execute_command returns its CommandHandle
CommandReturns ==
    /\ pc = "command"
    /\ \E handle \in {"Processed", "Callback", "callback_err", "Exit"} :
        IF handle \in {"Processed", "Callback"}
        THEN /\ pc' = "select"
             /\ UNCHANGED <<exit_path, dirty_at_stop, final_saves, unsaved, logged>>
        ELSE Break(handle)
    /\ UNCHANGED <<cache_needs_update, update_cache_ch, message_ch, sched,
                   producer, boot, notLoopVars>>

\* lines 164-170: the final update_cache returns and main ends
FinalSaveDone ==
    /\ pc = "final_save"
    /\ pc' = "done"
    /\ UNCHANGED <<cache_needs_update, update_cache_ch, message_ch, sched,
                   producer, exit_path, dirty_at_stop, final_saves, unsaved,
                   boot, logged, notLoopVars>>

(***************************************************************************)
(* lines 76-82, the scheduler task.  The receiver lives until the async    *)
(* block ends, after which no task is polled: send never returns Err to a  *)
(* running scheduler.                                                      *)
(***************************************************************************)
\* lines 77-81: the compare_exchange and, when it succeeds, the send
SchedCheck ==
    /\ Running
    /\ sched = "check"
    /\ IF cache_needs_update
       THEN LET s == mpsc_send(update_cache_ch) IN
            /\ cache_needs_update' = FALSE
            /\ update_cache_ch' = s.len
            /\ sched' = IF s.sent THEN "sleeping" ELSE "sending"
       ELSE /\ sched' = "sleeping"
            /\ UNCHANGED <<cache_needs_update, update_cache_ch>>
    /\ UNCHANGED <<pc, message_ch, producer, exit_path, dirty_at_stop,
                   final_saves, unsaved, boot, logged, notLoopVars>>

\* line 78: a suspended send is polled again
SchedSendResume ==
    /\ Running
    /\ sched = "sending"
    /\ LET s == mpsc_send(update_cache_ch) IN
        /\ s.sent
        /\ update_cache_ch' = s.len
        /\ sched' = "sleeping"
    /\ UNCHANGED <<pc, cache_needs_update, message_ch, producer, exit_path,
                   dirty_at_stop, final_saves, unsaved, boot, logged, notLoopVars>>

\* line 81: the 240 seconds have passed
SchedWake ==
    /\ Running
    /\ sched = "sleeping"
    /\ sched' = "check"
    /\ UNCHANGED <<pc, cache_needs_update, update_cache_ch, message_ch, producer,
                   exit_path, dirty_at_stop, final_saves, unsaved, boot, logged, notLoopVars>>

(***************************************************************************)
(* The command layer's background task holding message_tx (line 66).       *)
(***************************************************************************)
ProducerSend ==
    /\ Running
    /\ producer \in {"idle", "sending"}
    /\ LET s == mpsc_send(message_ch) IN
        /\ producer = "sending" => s.sent
        /\ message_ch' = s.len
        /\ producer' = IF s.sent THEN "idle" ELSE "sending"
    /\ UNCHANGED <<pc, cache_needs_update, update_cache_ch, sched, exit_path,
                   dirty_at_stop, final_saves, unsaved, boot, logged, notLoopVars>>

Init ==
    /\ pc = "startup"
    /\ cache_needs_update = FALSE
    /\ update_cache_ch = 0
    /\ message_ch = 0
    /\ sched = "absent"
    /\ producer = "absent"
    /\ exit_path = "none"
    /\ dirty_at_stop = FALSE
    /\ final_saves = 0
    /\ unsaved = FALSE
    /\ boot = "none"
    /\ logged = {}
    /\ InitCacheIdle
    /\ InitPersistIdle
    /\ InitBuildIdle

LoopStep ==
    \/ RecvRefresh
    \/ SaveDone
    \/ RecvMessage
    \/ CloseSignal
    \/ InputEvent
    \/ CommandMarksDirty
    \/ CommandReturns
    \/ FinalSaveDone

Next ==
    \/ StartupFails
    \/ StartupOk
    \/ RecvRefresh
    \/ SaveDone
    \/ RecvMessage
    \/ CloseSignal
    \/ InputEvent
    \/ CommandMarksDirty
    \/ CommandReturns
    \/ FinalSaveDone
    \/ SchedCheck
    \/ SchedSendResume
    \/ SchedWake
    \/ ProducerSend

Spec == Init /\ [][Next]_vars

(***************************************************************************)
(*                         Properties: the Cache                           *)
(***************************************************************************)
LastWithHostname(i) ==
    \A j \in DOMAIN servers : j > i => servers[j].hostname # servers[i].hostname

LastWithIp(i) ==
    \A j \in DOMAIN servers : j > i => servers[j].ip # servers[i].ip

IsUpsert == op.name \in {"update_cache_with", "update_cache_with_consume"}

\* C4 as stated: EVERY record of servers is indexed by both maps with its
\* own "ip:port" and its own region, and neither map is larger than servers.
C4_EveryRecordIndexed ==
    /\ \A i \in DOMAIN servers :
        /\ servers[i].hostname \in DOMAIN host_to_connect
        /\ host_to_connect[servers[i].hostname] = get_id(servers[i])
        /\ servers[i].ip \in DOMAIN ip_to_region
        /\ ip_to_region[servers[i].ip] = servers[i].region
    /\ Cardinality(DOMAIN host_to_connect) <= Len(servers)
    /\ Cardinality(DOMAIN ip_to_region) <= Len(servers)

\* C4 amended: every record's hostname and ip are keys of the maps, the value
\* under a key is the one of the LAST record of servers with that hostname
\* (that ip), and neither map is larger than servers.
C4_MapsFollowLastRecord ==
    /\ DOMAIN host_to_connect = {servers[i].hostname : i \in DOMAIN servers}
    /\ DOMAIN ip_to_region = {servers[i].ip : i \in DOMAIN servers}
    /\ \A i \in DOMAIN servers :
        /\ LastWithHostname(i) =>
               host_to_connect[servers[i].hostname] = get_id(servers[i])
        /\ LastWithIp(i) => ip_to_region[servers[i].ip] = servers[i].region
    /\ Cardinality(DOMAIN host_to_connect) <= Len(servers)
    /\ Cardinality(DOMAIN ip_to_region) <= Len(servers)

\* an upsert has added a record whose hostname and ip an earlier record
\* holds with another address and another region
C4_Witness ==
    /\ IsUpsert
    /\ \E i \in DOMAIN servers :
        /\ i < Len(servers)
        /\ servers[i].hostname = servers[Len(servers)].hostname
        /\ get_id(servers[i]) # get_id(servers[Len(servers)])
        /\ servers[i].ip = servers[Len(servers)].ip
        /\ servers[i].region # servers[Len(servers)].region

(***************************************************************************)
(*                     Properties: the snapshot file                       *)
(***************************************************************************)
\* read_cache has just run, the directory was listed, the file opened, and
\* the file holds a complete snapshot
ReadSnapshot ==
    /\ op.name = "read_cache"
    /\ op.io = "ok"
    /\ disk.kind = "snapshot"

FileVersion == disk.json.version
FileCreated == disk.json.created.secs_since_epoch
Hours25 == 25 * 3600

IsStaleErr == loaded = IoErr("InvalidData", "cache is too old")
IsVersionErr == loaded = IoErr("InvalidData", "version mismatch")

\* C5 as stated: a snapshot created 25 hours before now is refused as Stale
\* whatever its version.
C5_StaleWhateverVersion ==
    (ReadSnapshot /\ now - FileCreated = Hours25) => IsStaleErr

\* C5 amended: a snapshot created 25 hours before now is refused with
\* InvalidData: as Stale when its version is the running one, as a version
\* mismatch when it is not.
C5_Stale25Hours ==
    (ReadSnapshot /\ now - FileCreated = Hours25) =>
        IF FileVersion = RunningVersion THEN IsStaleErr ELSE IsVersionErr

C5_Witness ==
    /\ ReadSnapshot
    /\ now - FileCreated = Hours25
    /\ FileVersion = RunningVersion
    /\ IsStaleErr

\* C6: a snapshot of another version is refused with the version-mismatch
\* error for every created, and the Stale error is only ever given to a
\* snapshot of the running version.
C6_VersionCheckedFirst ==
    /\ (ReadSnapshot /\ FileVersion # RunningVersion) => IsVersionErr
    /\ (ReadSnapshot /\ IsStaleErr) => FileVersion = RunningVersion

C6_Witness ==
    /\ ReadSnapshot
    /\ FileVersion # RunningVersion
    /\ now - FileCreated > TTL
    /\ IsVersionErr

Abs(n) == IF n < 0 THEN -n ELSE n

\* C7 as stated: a Cache is returned exactly when the file exists, has the
\* running version and a created within 24 hours of the current time.
C7_LoadsIffWithin24h ==
    op.name = "read_cache" =>
        (loaded.tag = "Ok" <=>
            /\ ReadSnapshot
            /\ FileVersion = RunningVersion
            /\ Abs(now - FileCreated) <= TTL)

\* C7 amended: a Cache is returned exactly when the file is read, has the
\* running version, and its created is not later than the current time and at
\* most 24 hours before it; no file gives NotFound; no failure returns a Cache.
C7_LoadsIffFresh ==
    op.name = "read_cache" =>
        /\ loaded.tag = "Ok" <=>
               /\ ReadSnapshot
               /\ FileVersion = RunningVersion
               /\ now - FileCreated >= 0
               /\ now - FileCreated <= TTL
        /\ (disk.kind = "absent" /\ op.io # "dir_err") =>
               (loaded.tag = "Err" /\ loaded.kind = "NotFound")
        /\ loaded.tag = "Err" => "cache" \notin DOMAIN loaded

\* a snapshot exactly 24 hours old has been loaded
C7_Witness ==
    /\ ReadSnapshot
    /\ now - FileCreated = TTL
    /\ loaded.tag = "Ok"

BagOf(s) == [x \in Range(s) |-> Cardinality({i \in DOMAIN s : s[i] = x})]

\* C8: read_cache of the file an unmodified Cache was saved to, within the
\* 24 hours, gives a Cache with the same records (as a multiset), the same
\* created, and the maps Cache::from builds from the original records.
C8_RoundTrip ==
    (/\ op.name = "read_cache"
     /\ op.io = "ok"
     /\ unmodified
     /\ now - created >= 0
     /\ now - created <= TTL) =>
        /\ loaded.tag = "Ok"
        /\ BagOf(loaded.cache.servers) = BagOf(servers)
        /\ loaded.cache.created = created
        /\ loaded.cache.host_to_connect = CacheFrom(servers, created).host_to_connect
        /\ loaded.cache.ip_to_region = CacheFrom(servers, created).ip_to_region

\* a saved Cache of two records under one hostname has been read back
C8_Witness ==
    /\ op.name = "read_cache"
    /\ unmodified
    /\ loaded.tag = "Ok"
    /\ Len(servers) = 2
    /\ servers[1] # servers[2]
    /\ now # created

\* C9 as stated: a save that fails leaves the previous snapshot on disk.
C9_FailedSaveKeepsFile ==
    [][(/\ op'.name = "update_cache"
        /\ op'.fs # "ok"
        /\ disk.kind = "snapshot") => disk' = disk]_vars

(***************************************************************************)
(*                       Properties: build_cache                           *)
(***************************************************************************)
\* the hostnames of the advertised servers of the target game whose address
\* resolved, read off the host list
Candidates ==
    IF master.tag # "Ok" THEN {}
    ELSE {p.server.hostname : p \in
            {q \in Range(Pairs(master.host_list)) :
                q.server.game = GAME_ID /\ q.server.resolve # "Err"}}

Succeeded == {i \in DOMAIN tasks : tasks[i].state = "ok"}

\* C10: build_cache fails exactly when the directory query fails, and then no
\* unit was started; otherwise it returns exactly one record for each server
\* of the target game whose address resolved and whose unit succeeded.
C10_PopulateResult ==
    bpc = "done" =>
        /\ result.tag = "Err" <=> master.tag = "Err"
        /\ result.tag = "Err" => tasks = <<>>
        /\ result.tag = "Ok" =>
            /\ {tasks[i].server.hostname : i \in DOMAIN tasks} = Candidates
            /\ Len(tasks) = Cardinality(Candidates)
            /\ Len(result.list) = Cardinality(Succeeded)
            /\ \A i \in Succeeded :
                 Cardinality({k \in DOMAIN result.list :
                    result.list[k].hostname = tasks[i].server.hostname}) = 1
            /\ \A k \in DOMAIN result.list : \E i \in Succeeded :
                 result.list[k].hostname = tasks[i].server.hostname

\* three candidates, one of which failed geolocation, gave two records
C10_Witness ==
    /\ bpc = "done"
    /\ result.tag = "Ok"
    /\ Cardinality(Candidates) = 3
    /\ Cardinality(Succeeded) = 2
    /\ Len(result.list) = 2

(***************************************************************************)
(*                  Properties: the orchestration loop                     *)
(***************************************************************************)
\* C1 as stated: whichever way the loop stops, if the dirty flag is set at
\* that moment, update_cache is called once more before the process ends.
C1_DirtyAtStopIsSaved ==
    (pc = "done" /\ dirty_at_stop) => final_saves = 1

\* C2 as stated, for the runs that leave the loop through the post-loop code
\* (those that end on the shutdown signal are C1's): when the process ends,
\* every setting of the dirty flag by a command has been followed by a call
\* of update_cache, also when the scheduler had claimed the flag and queued
\* its signal and the loop stopped before receiving it.
C2_EverySetIsSaved ==
    (pc = "done" /\ exit_path # "close") => ~unsaved

\* a producer is suspended in send on a full channel
SchedSuspended == sched = "sending" /\ update_cache_ch = ChannelCapacity
ProducerSuspended == producer = "sending" /\ message_ch = ChannelCapacity

\* The loop is not stuck behind a suspended producer: suspended in a handler
\* it can finish the handler without that producer, and back in select! it
\* can take an item from the full channel.
LoopNotBlocked ==
    (Running /\ (SchedSuspended \/ ProducerSuspended)) =>
        /\ ENABLED LoopStep
        /\ pc = "saving" => ENABLED SaveDone
        /\ pc = "command" => ENABLED CommandReturns
        /\ pc = "final_save" => ENABLED FinalSaveDone
        /\ (pc = "select" /\ SchedSuspended) => ENABLED RecvRefresh
        /\ (pc = "select" /\ ProducerSuspended) => ENABLED RecvMessage

ChannelsBounded ==
    /\ update_cache_ch \in 0..ChannelCapacity
    /\ message_ch \in 0..ChannelCapacity

\* A step never loses an item: a channel shrinks only by the one item the
\* loop receives in select!, a claimed dirty flag becomes a queued signal or
\* a sender still suspended with it, and a send that completes queues its item.
NoItemLost ==
    /\ update_cache_ch' < update_cache_ch =>
          /\ update_cache_ch' = update_cache_ch - 1
          /\ pc = "select" /\ pc' = "saving"
    /\ message_ch' < message_ch =>
          /\ message_ch' = message_ch - 1
          /\ pc = "select"
    /\ (cache_needs_update /\ ~cache_needs_update') =>
          \/ update_cache_ch' = update_cache_ch + 1
          \/ sched' = "sending"
    /\ (sched = "sending" /\ sched' # "sending") =>
          update_cache_ch' = update_cache_ch + 1
    /\ (producer = "sending" /\ producer' # "sending") =>
          message_ch' = message_ch + 1

OtherGame ==
    IF master.tag # "Ok" THEN {}
    ELSE {p.server.hostname : p \in
            {q \in Range(Pairs(master.host_list)) : q.server.game # GAME_ID}}

\* C11: a server whose game is not the target game is never handed to
\* resolve_address, never gets a geolocation unit, and never appears in the
\* records collected or returned by build_cache.
C11_OtherGameFiltered ==
    \A h \in OtherGame :
        /\ h \notin Range(resolved)
        /\ \A i \in DOMAIN tasks : tasks[i].server.hostname # h
        /\ \A k \in DOMAIN collection : collection[k].hostname # h
        /\ result.tag = "Ok" =>
              \A k \in DOMAIN result.list : result.list[k].hostname # h

\* build_cache returned records from a host list that also advertised a
\* server of another game between two servers of the target game
C11_Witness ==
    /\ bpc = "done"
    /\ result.tag = "Ok"
    /\ OtherGame = {"srv2"}
    /\ Len(result.list) = 2
    /\ Len(resolved) = 2

(***************************************************************************)
(*                Properties: the Cache, lookups and upserts               *)
(***************************************************************************)
\* the identity key of a record, written out: "ip:port"
IdentityKey(r) == r.ip \o ":" \o ToString(r.port)

\* host_to_connect.get(hostname)
Lookup(h) ==
    IF h \in DOMAIN host_to_connect
    THEN [tag |-> "Some", id |-> host_to_connect[h]]
    ELSE [tag |-> "None"]

FromIndexesAll ==
    /\ Cardinality(DOMAIN host_to_connect) = Len(servers)
    /\ \A i \in DOMAIN servers :
          Lookup(servers[i].hostname) = [tag |-> "Some", id |-> IdentityKey(servers[i])]

\* C12 as stated: when the identity keys (ip:port) of the records given to
\* Cache::from are pairwise distinct, host_to_connect has one entry per
\* record and the lookup of each record's hostname gives its own "ip:port".
C12_DistinctIdsIndexAll ==
    (/\ op.name = "from"
     /\ \A i, j \in DOMAIN servers :
           i # j => IdentityKey(servers[i]) # IdentityKey(servers[j]))
        => FromIndexesAll

\* C12 amended: when the HOSTNAMES of the records given to Cache::from are
\* pairwise distinct, host_to_connect has one entry per record and the
\* lookup of each record's hostname gives its own "ip:port".
C12_DistinctHostnamesIndexAll ==
    (/\ op.name = "from"
     /\ \A i, j \in DOMAIN servers :
           i # j => servers[i].hostname # servers[j].hostname)
        => FromIndexesAll

\* Cache::from was given two records with different hostnames and the same
\* ip on different ports
C12_Witness ==
    /\ op.name = "from"
    /\ Len(servers) = 2
    /\ servers[1].hostname # servers[2].hostname
    /\ servers[1].ip = servers[2].ip
    /\ servers[1].port # servers[2].port
    /\ FromIndexesAll

\* C13: last write wins.  After Cache::from and any upserts, the lookup of
\* a hostname gives the "ip:port" of the LAST record of servers with that
\* hostname, and nothing when no record has that hostname.
C13_LastWriteWins ==
    \A h \in Hostnames :
        LET held == {i \in DOMAIN servers : servers[i].hostname = h} IN
        IF held = {} THEN Lookup(h) = [tag |-> "None"]
        ELSE LET last == CHOOSE i \in held : \A j \in held : j <= i
             IN  Lookup(h) = [tag |-> "Some", id |-> IdentityKey(servers[last])]

\* Cache::from was given two records under one hostname with different
\* addresses, an upsert then added a third under it, and the other hostname
\* is held by no record
C13_Witness ==
    /\ IsUpsert
    /\ Len(servers) = 3
    /\ \A i \in DOMAIN servers : servers[i].hostname = "alpha"
    /\ IdentityKey(servers[1]) # IdentityKey(servers[2])
    /\ IdentityKey(servers[2]) # IdentityKey(servers[3])
    /\ Lookup("bravo") = [tag |-> "None"]

UpsertFrame ==
    op'.name = "update_cache_with" =>
        LET new == op'.server IN
        /\ Len(servers') = Len(servers) + 1
        /\ SubSeq(servers', 1, Len(servers)) = servers
        /\ servers'[Len(servers')] = new
        /\ DOMAIN host_to_connect' = DOMAIN host_to_connect \cup {new.hostname}
        /\ host_to_connect'[new.hostname] = IdentityKey(new)
        /\ \A h \in DOMAIN host_to_connect \ {new.hostname} :
              host_to_connect'[h] = host_to_connect[h]
        /\ DOMAIN ip_to_region' = DOMAIN ip_to_region \cup {new.ip}
        /\ ip_to_region'[new.ip] = new.region
        /\ \A a \in DOMAIN ip_to_region \ {new.ip} :
              ip_to_region'[a] = ip_to_region[a]
        /\ created' = created

\* C14: update_cache_with on any Cache, also one that already holds the
\* hostname or the ip:port, appends exactly one record and leaves the earlier
\* records as they were and in their order, sets the entries of both maps
\* under the new hostname and ip, changes no other entry, and leaves created.
C14_UpsertAppendsOne == [][UpsertFrame]_vars

\* update_cache_with has added a record whose hostname and ip:port an earlier
\* record already holds, to a Cache that also holds another hostname and ip
C14_Witness ==
    /\ op.name = "update_cache_with"
    /\ Len(servers) = 3
    /\ \E i \in 1..2 : /\ servers[i].hostname = servers[3].hostname
                        /\ IdentityKey(servers[i]) = IdentityKey(servers[3])
    /\ \E j \in 1..2 : /\ servers[j].hostname # servers[3].hostname
                        /\ servers[j].ip # servers[3].ip

(***************************************************************************)
(*             Properties: the creation time across saves                  *)
(***************************************************************************)
StaleErr == IoErr("InvalidData", "cache is too old")

SavedKeepsCreated ==
    \* the snapshot a save has just written carries the Cache's created
    /\ (op.name = "update_cache" /\ op.fs = "ok") =>
          /\ disk.kind = "snapshot"
          /\ FileCreated = created
          \* read at the very instant of the save, it is already refused
          /\ now - created > TTL => read_cache(disk, now, "ok") = StaleErr
    \* and so does the snapshot on disk as long as it is the last save
    /\ unmodified => (disk.kind = "snapshot" /\ FileCreated = created)
    \* a later read_cache refuses it once the Cache is older than 24 hours
    /\ (ReadSnapshot /\ unmodified /\ now - created > TTL) => loaded = StaleErr

\* C19: no upsert and no save changes the Cache's created; the snapshot that
\* update_cache writes carries that original created, not the time of the
\* save; so read_cache refuses the snapshot as too old once 24 hours have
\* passed since the Cache was built, however recently it was saved.
C19_SaveKeepsCreated == [][created' = created]_vars /\ []SavedKeepsCreated

\* a Cache built more than 24 hours ago has had a record added and has just
\* been saved: the fresh file carries the old created
C19_Witness ==
    /\ op.name = "update_cache"
    /\ op.fs = "ok"
    /\ Len(servers) = 2
    /\ now - created > TTL
    /\ FileCreated = created
    /\ FileCreated # now

(***************************************************************************)
(*               Properties: the order of build_cache's result             *)
(***************************************************************************)
\* the hostnames of the servers whose unit succeeded, in the order the two
\* for loops visit the host list
RECURSIVE SucceededInListOrder(_, _)
SucceededInListOrder(pairs, i) ==
    IF i > Len(pairs) THEN <<>>
    ELSE IF \E t \in Succeeded : tasks[t].server.hostname = pairs[i].server.hostname
         THEN <<pairs[i].server.hostname>> \o SucceededInListOrder(pairs, i + 1)
         ELSE SucceededInListOrder(pairs, i + 1)

\* C20: in whatever order the geolocation units finish, build_cache returns
\* the records of the successful units in the order the units were spawned:
\* host-list order, then the order of the servers within a host.
C20_ResultInSpawnOrder ==
    (bpc = "done" /\ result.tag = "Ok") =>
        [k \in DOMAIN result.list |-> result.list[k].hostname]
            = SucceededInListOrder(Pairs(master.host_list), 1)

\* units of two hosts finished out of spawn order and build_cache returned
\* three records
C20_Witness ==
    /\ bpc = "done"
    /\ result.tag = "Ok"
    /\ overtaken
    /\ Len(master.host_list) = 2
    /\ Len(result.list) = 3

C17_EveryClaimOneSave ==
    (pc = "done" /\ exit_path # "startup_err") =>
        /\ update_cache_ch = 0
        /\ sched # "sending"
        /\ final_saves = 0

\* the errors that take the loop to a `break`
FatalErrors == {"msg_err", "callback_err", "editor_err", "stream_err"}

\* the errors after which the loop goes back to select!
LoggedOnly == {"save_err", "split_err"}

\* C18 as stated: the loop is left on an error only when the error comes
\* from the input-event source (the event stream or the line editor).
C18_OnlyInputErrorsEndLoop ==
    exit_path \in FatalErrors \cup LoggedOnly =>
        exit_path \in {"stream_err", "editor_err"}

ErrorsEndingLoop ==
    /\ logged \subseteq FatalErrors \cup LoggedOnly
    /\ exit_path \notin LoggedOnly
    /\ logged \subseteq LoggedOnly => exit_path \notin FatalErrors
    /\ logged \cap FatalErrors # {} =>
          /\ logged \cap FatalErrors = {exit_path}
          /\ pc \in {"final_save", "done"}

\* the step that meets a failed save or a parse failure ends in select!
LoggedErrorGoesOn ==
    (logged' # logged /\ logged' \ logged \subseteq LoggedOnly) => pc' = "select"

\* C18 amended: the loop keeps running after a failed update_cache on a
\* refresh signal and after an argument-parse failure; it is left on a
\* background-message forwarding failure, a callback-init failure, a line
\* editor error and an input stream error, and on the first of them.
C18_WhichErrorsEndLoop == []ErrorsEndingLoop /\ [][LoggedErrorGoesOn]_vars

\* the loop has gone on after a failed save and after a parse failure, and
\* was then left because a background message could not be forwarded
C18_Witness ==
    /\ logged = {"save_err", "split_err", "msg_err"}
    /\ exit_path = "msg_err"
    /\ pc = "done"

(***************************************************************************)
(*                Properties: upserts and the dirty flag                   *)
(***************************************************************************)
\* C16 as stated: right after update_cache_with returns, the shared dirty
\* flag is true.
C16_UpsertSetsFlag ==
    op.name = "update_cache_with" => cache_needs_update

\* C16 amended: update_cache_with does not touch the shared dirty flag: the
\* flag is after the call what it was before it, set or clear (setting it is
\* left to the caller).
C16_UpsertLeavesFlag ==
    [][op'.name = "update_cache_with" => cache_needs_update' = cache_needs_update]_vars

\* update_cache_with has added a record and the dirty flag is still clear
C16_Witness ==
    /\ op.name = "update_cache_with"
    /\ Len(servers) >= 1
    /\ ~cache_needs_update

====
